---- MODULE Spec2Model ----
(***************************************************************************)
(* The arXiv listing spider: ArxivSpider.__init__, ArxivSpider.parse and   *)
(* ArxivSpider.parse_abstract_page of daily_arxiv/spiders/arxiv.py.        *)
(*                                                                         *)
(* Python strings are sequences of one-character strings, so that          *)
(* lower(), replace(), strip(), split(), slicing, `in`, int() and the      *)
(* regular expression of the category parser are computed, not assumed.    *)
(* Python's None is the value None below; a scrapy SelectorList is the     *)
(* sequence of the elements it selected.                                   *)
(***************************************************************************)
EXTENDS Integers, Sequences, FiniteSets, TLC

\* ------------------------------------------------------------------ bounds
\* dt elements (listing entries) of one listing page
MaxEntries == 2

\* ------------------------------------------------------- Python primitives
None == <<"None">>

\* truthiness of an Optional[str]
Truthy(x) == x # None /\ x # <<>>

\* truthiness of a list or of a SelectorList
NonEmpty(xs) == Len(xs) > 0

UpperChars ==
    <<"A","B","C","D","E","F","G","H","I","J","K","L","M",
      "N","O","P","Q","R","S","T","U","V","W","X","Y","Z">>

LowerChars ==
    <<"a","b","c","d","e","f","g","h","i","j","k","l","m",
      "n","o","p","q","r","s","t","u","v","w","x","y","z">>

DigitChars == <<"0","1","2","3","4","5","6","7","8","9">>

Whitespace == {" ", "\t", "\n", "\r"}

IndexIn(c, chars) ==
    IF \E i \in DOMAIN chars : chars[i] = c
    THEN CHOOSE i \in DOMAIN chars : chars[i] = c
    ELSE 0

\* str.lower() of one character
LowerChar(c) ==
    IF IndexIn(c, UpperChars) = 0 THEN c ELSE LowerChars[IndexIn(c, UpperChars)]

\* str.lower()
ToLower(s) == [i \in 1..Len(s) |-> LowerChar(s[i])]

\* str.upper(); the spider never calls it, the listing titles in capitals are built with it
ToUpper(s) ==
    [i \in 1..Len(s) |->
        IF IndexIn(s[i], LowerChars) = 0 THEN s[i] ELSE UpperChars[IndexIn(s[i], LowerChars)]]

\* sub in s
Contains(sub, s) ==
    \E i \in 0..(Len(s) - Len(sub)) : SubSeq(s, i + 1, i + Len(sub)) = sub

\* s.replace(old, new): every non-overlapping occurrence, left to right
RECURSIVE Replace(_, _, _)
Replace(s, old, new) ==
    IF Len(s) < Len(old) THEN s
    ELSE IF SubSeq(s, 1, Len(old)) = old
         THEN new \o Replace(SubSeq(s, Len(old) + 1, Len(s)), old, new)
         ELSE <<s[1]>> \o Replace(Tail(s), old, new)

RECURSIVE LStrip(_)
LStrip(s) == IF s # <<>> /\ s[1] \in Whitespace THEN LStrip(Tail(s)) ELSE s

RECURSIVE RStrip(_)
RStrip(s) ==
    IF s # <<>> /\ s[Len(s)] \in Whitespace
    THEN RStrip(SubSeq(s, 1, Len(s) - 1))
    ELSE s

\* str.strip()
Strip(s) == RStrip(LStrip(s))

\* s[:k]
Slice(s, k) == SubSeq(s, 1, IF Len(s) < k THEN Len(s) ELSE k)

\* the start of the last occurrence of sep in s, 0 when there is none
LastIndexOf(sep, s) ==
    LET at == {i \in 1..(Len(s) - Len(sep) + 1) : SubSeq(s, i, i + Len(sep) - 1) = sep}
    IN  IF at = {} THEN 0 ELSE CHOOSE i \in at : \A j \in at : j <= i

\* s.split(sep)[-1], for a separator that cannot overlap itself ("item", "/")
SplitLast(s, sep) ==
    IF LastIndexOf(sep, s) = 0 THEN s
    ELSE SubSeq(s, LastIndexOf(sep, s) + Len(sep), Len(s))

\* s.split(c) for a one-character separator
RECURSIVE Split(_, _)
Split(s, c) ==
    IF \A i \in DOMAIN s : s[i] # c THEN <<s>>
    ELSE LET k == CHOOSE i \in DOMAIN s : s[i] = c /\ \A j \in 1..(i - 1) : s[j] # c
         IN  <<SubSeq(s, 1, k - 1)>> \o Split(SubSeq(s, k + 1, Len(s)), c)

RECURSIVE DigitsValue(_)
DigitsValue(ds) ==
    IF ds = <<>> THEN 0
    ELSE 10 * DigitsValue(SubSeq(ds, 1, Len(ds) - 1)) + (IndexIn(ds[Len(ds)], DigitChars) - 1)

\* int(s): surrounding whitespace, an optional sign, then decimal digits with single
\* underscores between them; anything else raises ValueError (ok = FALSE)
IntParse(s) ==
    LET t      == Strip(s)
        signed == t # <<>> /\ t[1] \in {"+", "-"}
        body   == IF signed THEN Tail(t) ELSE t
        valid  == /\ body # <<>>
                  /\ \A i \in DOMAIN body : body[i] = "_" \/ IndexIn(body[i], DigitChars) # 0
                  /\ body[1] # "_" /\ body[Len(body)] # "_"
                  /\ \A i \in 1..(Len(body) - 1) : ~(body[i] = "_" /\ body[i + 1] = "_")
        digits == SelectSeq(body, LAMBDA c : c # "_")
    IN  IF ~valid THEN [ok |-> FALSE, val |-> 0]
        ELSE [ok |-> TRUE,
              val |-> IF signed /\ t[1] = "-" THEN 0 - DigitsValue(digits) ELSE DigitsValue(digits)]

\* re.findall(r'\(([^)]+)\)', text): the captured groups, left to right
RECURSIVE FindAllParenthesized(_)
FindAllParenthesized(text) ==
    IF \A i \in DOMAIN text : text[i] # "(" THEN <<>>
    ELSE LET open   == CHOOSE i \in DOMAIN text :
                           text[i] = "(" /\ \A j \in 1..(i - 1) : text[j] # "("
             closes == {j \in (open + 1)..Len(text) : text[j] = ")"}
             close  == CHOOSE j \in closes : \A k \in closes : j <= k
         IN  IF closes = {} THEN <<>>
             ELSE IF close = open + 1
                  THEN FindAllParenthesized(SubSeq(text, open + 1, Len(text)))
                  ELSE <<SubSeq(text, open + 1, close - 1)>>
                       \o FindAllParenthesized(SubSeq(text, close + 1, Len(text)))

\* set(xs) of a list
ToSet(xs) == {xs[i] : i \in DOMAIN xs}

\* ------------------------------------------------------------ the strings
my_keywords ==
    << <<"s","t","r","o","n","g"," ","l","e","n","s">>,
       <<"s","t","r","o","n","g"," ","g","r","a","v","i","t","a","t","i","o","n","a","l"," ","l","e","n","s">>,
       <<"s","t","r","o","n","g"," ","l","e","n","s","i","n","g","l","e","n","s"," ","m","o","d","e","l">>,
       <<"l","e","n","s","i","n","g">>,
       <<"d","a","r","k"," ","m","a","t","t","e","r">>,
       <<"D","M"," ","h","a","l","o">>,
       <<"A","L","M","A">>,
       <<"S","K","A">>,
       <<"i","n","t","e","r","f","e","r","o","m","e","t","e","r","D","u","s","t">>,
       <<"d","u","s","t","y">>,
       <<"D","S","F","G","s">>,
       <<"s","u","b","m","i","l","l","i","m","e","t","e","r">>,
       <<"h","i","g","h","-","r","e","d","s","h","i","f","t">>,
       <<"z"," ",">">>,
       <<"z",">">>,
       <<"p","o","l","a","r","i","z","a","t","i","o","n">>,
       <<"p","o","l","a","r","i","z","e","d">>,
       <<"p","o","l","a","r","i","s","e","d">>,
       <<"g","a","s">>,
       <<"m","o","l","e","c","u","l","a","r">>,
       <<"m","o","l","e","c","u","l","a","r"," ","g","a","s">>,
       <<"S","P","T">>,
       <<"H","e","r","s","c","h","e","l">>,
       <<"J","W","S","T">>,
       <<"E","u","c","l","i","d">>,
       <<"C","S","S","T">> >>

WrittenKeywords ==
    << <<"s","t","r","o","n","g"," ","l","e","n","s">>,
       <<"s","t","r","o","n","g"," ","g","r","a","v","i","t","a","t","i","o","n","a","l"," ","l","e","n","s">>,
       <<"s","t","r","o","n","g"," ","l","e","n","s","i","n","g">>,
       <<"l","e","n","s"," ","m","o","d","e","l">>,
       <<"l","e","n","s","i","n","g">>,
       <<"d","a","r","k"," ","m","a","t","t","e","r">>,
       <<"D","M"," ","h","a","l","o">>,
       <<"A","L","M","A">>,
       <<"S","K","A">>,
       <<"i","n","t","e","r","f","e","r","o","m","e","t","e","r">>,
       <<"D","u","s","t">>,
       <<"d","u","s","t","y">>,
       <<"D","S","F","G","s">>,
       <<"s","u","b","m","i","l","l","i","m","e","t","e","r">>,
       <<"h","i","g","h","-","r","e","d","s","h","i","f","t">>,
       <<"z"," ",">">>,
       <<"z",">">>,
       <<"p","o","l","a","r","i","z","a","t","i","o","n">>,
       <<"p","o","l","a","r","i","z","e","d">>,
       <<"p","o","l","a","r","i","s","e","d">>,
       <<"g","a","s">>,
       <<"m","o","l","e","c","u","l","a","r">>,
       <<"m","o","l","e","c","u","l","a","r"," ","g","a","s">>,
       <<"S","P","T">>,
       <<"H","e","r","s","c","h","e","l">>,
       <<"J","W","S","T">>,
       <<"E","u","c","l","i","d">>,
       <<"C","S","S","T">> >>

DefaultCategories ==
    <<"a","s","t","r","o","-","p","h",".","G","A",","," ","a","s","t","r","o","-","p","h",".","C",
      "O">>

EnvOneCategory ==
    <<"a","s","t","r","o","-","p","h",".","G","A">>

LabelTitle ==
    <<"T","i","t","l","e",":">>

LabelAbstract ==
    <<"A","b","s","t","r","a","c","t",":">>

ItemWord ==
    <<"i","t","e","m">>

Origin ==
    <<"h","t","t","p","s",":","/","/","a","r","x","i","v",".","o","r","g">>

ListingDir ==
    <<"h","t","t","p","s",":","/","/","a","r","x","i","v",".","o","r","g","/","l","i","s","t","/",
      "a","s","t","r","o","-","p","h",".","G","A","/">>

NameItem5 ==
    <<"i","t","e","m","5">>

NameItem10 ==
    <<"i","t","e","m","1","0">>

NameItem12 ==
    <<"i","t","e","m","1","2">>

NameItemX ==
    <<"i","t","e","m","x">>

NavItem10 ==
    <<"#","i","t","e","m","1","0">>

NavItem12 ==
    <<"#","i","t","e","m","1","2">>

NavHelp ==
    <<"/","h","e","l","p">>

NavItems ==
    <<"/","i","t","e","m","s">>

LinkP1 ==
    <<"/","a","b","s","/","p","1">>

LinkP2 ==
    <<"/","a","b","s","/","p","2">>

SubjGA ==
    <<"G","a","l","a","x","i","e","s"," ","(","a","s","t","r","o","-","p","h",".","G","A",")">>

SubjLG ==
    <<"L","e","a","r","n","i","n","g"," ","(","c","s",".","L","G",")">>

SubjLGCO ==
    <<";"," ","(","c","s",".","L","G",")",";"," ","(","a","s","t","r","o","-","p","h",".","C","O",
      ")">>

SubjBlank ==
    <<" ">>

TitleLensing ==
    <<"T","i","t","l","e",":"," ","A"," ","S","t","r","o","n","g"," ","L","e","n","s","i","n","g",
      " ","S","u","r","v","e","y">>

TitleGas ==
    <<"T","i","t","l","e",":"," ","A"," ","S","u","r","v","e","y"," ","o","f"," ","G","a","s"," ",
      "C","o","n","t","e","n","t">>

TitlePlain ==
    <<"T","i","t","l","e",":"," ","A"," ","S","u","r","v","e","y"," ","o","f"," ","G","a","l","a",
      "x","y"," ","C","o","n","t","e","n","t">>

AbstractGas ==
    <<"A","b","s","t","r","a","c","t",":"," ",".",".",".","w","e"," ","s","t","u","d","y"," ","m",
      "o","l","e","c","u","l","a","r"," ","g","a","s"," ","c","o","n","t","e","n","t",".",".",".">>

AbstractPlain ==
    <<"A","b","s","t","r","a","c","t",":"," ","w","e"," ","c","o","u","n","t"," ","g","a","l","a",
      "x","i","e","s">>

CatGA ==
    <<"a","s","t","r","o","-","p","h",".","G","A">>

\* ------------------------------------------------------------ the spider
VARIABLES
    target_categories,  \* self.target_categories
    pc,                 \* where parse() stands: "start", "loop" or "raised"
    anchors,            \* the list anchors of parse()
    count,              \* dt elements the for loop of parse() has taken so far
    last,               \* <<dt>>: the dt the loop took last (<<>> before the first)
    items,              \* what the callbacks yielded to the item sink, in order
    requests,           \* the scrapy.Request objects parse() yielded, in order
    delivered,          \* indices of the requests whose callback has run
    lastResp,           \* <<[req, abstract]>>: the response parse_abstract_page got last
    log                 \* self.logger records, in order

vars ==
    <<target_categories, pc, anchors, count, last, items, requests, delivered, lastResp, log>>

\* os.environ.get("CATEGORIES"): unset, or one category
EnvValues == {None, EnvOneCategory}

\* __init__: the target set from the environment
TargetCategories(env) ==
    LET raw   == IF env = None THEN DefaultCategories ELSE env
        parts == Split(raw, ",")
    IN  {Strip(parts[i]) : i \in DOMAIN parts}

\* sel.css("...::text").get(): the first text node, None when the element is missing
\* or holds no text (an element without text has no text node)
CssTextGet(el) == IF el = None \/ el = <<>> THEN None ELSE el

\* sel.xpath("string()").get(): None when the element is missing, else its string
\* value, "" for an element without text
XPathStringGet(el) == el

\* response.urljoin(abstract_link) on a listing page
UrlJoin(link) == IF link[1] = "/" THEN Origin \o link ELSE ListingDir \o link

\* parse(), the first loop: anchors of the navigation block, or ValueError from int()
RECURSIVE CollectAnchors(_)
CollectAnchors(nav) ==
    IF nav = <<>> THEN [ok |-> TRUE, anchors |-> <<>>]
    ELSE LET before == CollectAnchors(SubSeq(nav, 1, Len(nav) - 1))
             href   == nav[Len(nav)]
             n      == IntParse(SplitLast(href, ItemWord))
         IN  IF ~before.ok THEN before
             ELSE IF Truthy(href) /\ Contains(ItemWord, href)
                  THEN IF n.ok
                       THEN [ok |-> TRUE, anchors |-> Append(before.anchors, n.val)]
                       ELSE [ok |-> FALSE, anchors |-> before.anchors]
                  ELSE before

\* the bound taken as inclusive: paper_id > anchors[-1]
PastAnchorBound_Strict(anchorList, paper_id) ==
    NonEmpty(anchorList) /\ paper_id > anchorList[Len(anchorList)]

\* parse(): anchors and paper_id >= anchors[-1]
PastAnchorBound(anchorList, paper_id) ==
    NonEmpty(anchorList) /\ paper_id >= anchorList[Len(anchorList)]

\* parse(): subjects_text, the primary subject or else the subjects line
SubjectsText(dd) ==
    IF Truthy(CssTextGet(dd.primary)) THEN CssTextGet(dd.primary) ELSE CssTextGet(dd.subjects)

\* parse(): categories; list(set(...)) has no defined order, so a set
Categories(subjects_text) ==
    IF Truthy(subjects_text) THEN ToSet(FindAllParenthesized(subjects_text)) ELSE {}

\* the gate without "and subjects_text"
CategoryMismatch_NoTextTest(categories, subjects_text, target) ==
    categories \cap target = {}

\* the gate with "and categories" in place of "and subjects_text"
CategoryMismatch_ByList(categories, subjects_text, target) ==
    (categories \cap target = {}) /\ categories # {}

\* parse(): not paper_categories_set.intersection(self.target_categories) and subjects_text
CategoryMismatch(categories, subjects_text, target) ==
    (categories \cap target = {}) /\ Truthy(subjects_text)

\* clean_title without .lower()
CleanTitle_NoLower(title_text) ==
    IF Truthy(title_text) THEN Strip(Replace(title_text, LabelTitle, <<>>)) ELSE <<>>

\* parse(): clean_title
CleanTitle(title_text) ==
    IF Truthy(title_text) THEN ToLower(Strip(Replace(title_text, LabelTitle, <<>>))) ELSE <<>>

\* kw.lower() for every kw of self.my_keywords
LowerKeywords == [k \in DOMAIN my_keywords |-> ToLower(my_keywords[k])]

\* the loop left after its first keyword
is_title_interested_FirstOnly(clean_title) == Contains(LowerKeywords[1], clean_title)

\* parse(): the loop over self.my_keywords on the title
is_title_interested(clean_title) ==
    \E k \in DOMAIN my_keywords : Contains(LowerKeywords[k], clean_title)

\* parse_abstract_page(): clean_abstract
CleanAbstract(abstract_text) == ToLower(Strip(Replace(abstract_text, LabelAbstract, <<>>)))

\* the loop left after its first keyword
is_abstract_interested_FirstOnly(clean_abstract) == Contains(LowerKeywords[1], clean_abstract)

\* parse_abstract_page(): the loop over self.my_keywords on the abstract
is_abstract_interested(clean_abstract) ==
    \E k \in DOMAIN my_keywords : Contains(LowerKeywords[k], clean_abstract)

\* self.logger.<level>(f"<msg> {id}: {text}..."); ref is the dict the record is about
LogRecord(level, msg, id, text, ref) ==
    [level |-> level, msg |-> msg, id |-> id, text |-> text, ref |-> ref]

\* the item yielded twice
YieldItem_Twice(by, item_data) ==
    <<[by |-> by, data |-> item_data], [by |-> by, data |-> item_data]>>

\* yield item_data, in the callback named by
YieldItem(by, item_data) == <<[by |-> by, data |-> item_data]>>

\* an entry that yields nothing and logs nothing
Nothing == [raised |-> FALSE, items |-> <<>>, requests |-> <<>>, log |-> <<>>]

\* parse(): what the title test yields for item_data; ref is the identity of the
\* item_data dict, a new one for each dt
TitleDecision(hit, item_data, clean_title, abstract_link) ==
    IF hit
    THEN [raised   |-> FALSE,
          items    |-> YieldItem("parse", item_data),
          requests |-> <<>>,
          log      |-> <<LogRecord("info", "Found INTERESTING paper (by Title)",
                                   item_data.val.id, Slice(clean_title, 50), item_data.ref)>>]
    ELSE [raised   |-> FALSE,
          items    |-> <<>>,
          requests |-> <<[url  |-> UrlJoin(abstract_link),
                          meta |-> [item_data    |-> item_data,
                                    title_prefix |-> Slice(clean_title, 30)]]>>,
          log      |-> <<>>]

\* parse(): the body of the for loop over response.css("dl dt"), for the dt taken n-th
ParseEntryResult(anchorList, target, dt, n) ==
    LET paper_anchor  == dt.name
        paper_id      == IntParse(SplitLast(paper_anchor, ItemWord))
        abstract_link == dt.href
        arxiv_id      == SplitLast(abstract_link, <<"/">>)
        paper_dd      == dt.dd
        subjects_text == SubjectsText(paper_dd[1])
        categories    == Categories(subjects_text)
        item_data     == [ref |-> n, val |-> [id |-> arxiv_id, categories |-> categories]]
        clean_title   == CleanTitle(XPathStringGet(paper_dd[1].title))
    IN  IF ~Truthy(paper_anchor) THEN Nothing
        ELSE IF ~paper_id.ok THEN [Nothing EXCEPT !.raised = TRUE]
        ELSE IF PastAnchorBound(anchorList, paper_id.val) THEN Nothing
        ELSE IF ~Truthy(abstract_link) THEN Nothing
        ELSE IF ~NonEmpty(paper_dd) THEN Nothing
        ELSE IF CategoryMismatch(categories, subjects_text, target)
             THEN [Nothing EXCEPT !.log =
                     <<LogRecord("debug", "Skipped paper (category mismatch)",
                                 arxiv_id, <<>>, n)>>]
        ELSE TitleDecision(is_title_interested(clean_title), item_data, clean_title,
                           abstract_link)

\* item_data kept in one place shared by all requests: the latest one built
MetaItemData_Latest(i) == requests[Len(requests)].meta.item_data

\* parse_abstract_page(): response.meta['item_data']
MetaItemData(i) == requests[i].meta.item_data

\* parse_abstract_page(): what the callback yields and logs for the response to request i
AbstractDecision(i, abstract_text) ==
    LET item_data    == MetaItemData(i)
        title_prefix == requests[i].meta.title_prefix
    IN  IF Truthy(abstract_text)
        THEN IF is_abstract_interested(CleanAbstract(abstract_text))
             THEN [items    |-> YieldItem("parse_abstract_page", item_data),
                   requests |-> <<>>,
                   log      |-> <<LogRecord("info", "Found INTERESTING paper (by Abstract)",
                                            item_data.val.id, title_prefix, item_data.ref)>>]
             ELSE [items    |-> <<>>,
                   requests |-> <<>>,
                   log      |-> <<LogRecord("info",
                                            "Skipped paper: Keywords not found in Title or Abstract",
                                            item_data.val.id, <<>>, item_data.ref)>>]
        ELSE [items    |-> <<>>,
              requests |-> <<>>,
              log      |-> <<LogRecord("warning", "Could not extract abstract",
                                       item_data.val.id, <<>>, item_data.ref)>>]

\* ------------------------------------------------------------ the inputs
\* the li elements of div#dlpage ul: none; none that is an index marker; one marker;
\* two markers, the last one the smaller; a link whose suffix after "item" is no integer,
\* alone and after a marker
NavBlocks ==
    { <<>>, <<NavHelp, None>>, <<NavItem10>>, <<NavItem12, NavHelp, NavItem10>>,
      <<NavItems>>, <<NavItem10, NavItems>> }

\* a dd: the text of .primary-subject, of .list-subjects and of .list-title
\* (None: the element is missing; <<>>: the element is there and holds no text)
DD(primary, subjects, title) == <<[primary |-> primary, subjects |-> subjects, title |-> title]>>

\* a dt: the name of its a[name^='item'], the href of its a[title='Abstract'], its dd
DT(name, href, dd) == [name |-> name, href |-> href, dd |-> dd]

\* the subject elements of a dd: <<primary, subjects>>
SubjectFields ==
    { <<None, None>>, <<(<<>>), None>>, <<(<<>>), SubjBlank>>,
      <<SubjGA, None>>, <<SubjLG, None>>, <<None, SubjLGCO>> }

\* entries at and past the anchor bound, whatever else they hold
BoundaryEntries ==
    { DT(nm, x[1], x[2]) :
        nm \in {NameItem10, NameItem12},
        x  \in { <<LinkP2, DD(SubjGA, None, TitleLensing)>>,
                 <<LinkP2, DD(SubjGA, None, TitlePlain)>>,
                 <<None, DD(SubjGA, None, TitleLensing)>>,
                 <<LinkP2, (<<>>)>> } }

\* entries below the bound without abstract link, without detail block
BrokenEntries ==
    { DT(NameItem5, None, DD(SubjGA, None, TitleLensing)), DT(NameItem5, LinkP1, <<>>) }

\* entries whose anchor is missing or holds no integer
AnchorlessEntries ==
    { DT(nm, LinkP1, DD(SubjGA, None, TitleLensing)) : nm \in {None, NameItemX} }

\* entries with every kind of subject field, under a title that holds a keyword
CategoryEntries ==
    { DT(NameItem5, LinkP1, DD(s[1], s[2], TitleLensing)) : s \in SubjectFields }

\* entries with every kind of title
TitleEntries ==
    { DT(NameItem5, LinkP2, DD(SubjGA, None, t)) : t \in {TitleLensing, TitleGas, TitlePlain} }
        \cup { DT(NameItem5, LinkP1, DD(SubjGA, None, None)) }

Entries ==
    BoundaryEntries \cup BrokenEntries \cup AnchorlessEntries \cup CategoryEntries
        \cup TitleEntries

\* the written keywords as listing titles: as written, in capitals, in small letters
KeywordTitles ==
    UNION { { LabelTitle \o <<" ">> \o WrittenKeywords[k],
              LabelTitle \o <<" ">> \o ToUpper(WrittenKeywords[k]),
              LabelTitle \o <<"\n", "A", " ">> \o ToLower(WrittenKeywords[k]) \o <<" ", "s", "u", "r", "v", "e", "y">> }
            : k \in DOMAIN WrittenKeywords }

KeywordEntries ==
    { DT(NameItem5, LinkP1, DD(SubjGA, None, t)) : t \in KeywordTitles \cup {TitlePlain} }

\* blockquote.abstract of an abstract page (None: missing; <<>>: empty)
AbstractPages == {None, <<>>, AbstractGas, AbstractPlain}

\* ------------------------------------------------------------ the actions
Init ==
    /\ \E env \in EnvValues : target_categories = TargetCategories(env)
    /\ pc = "start"
    /\ anchors = <<>>
    /\ count = 0
    /\ last = <<>>
    /\ items = <<>>
    /\ requests = <<>>
    /\ delivered = {}
    /\ lastResp = <<>>
    /\ log = <<>>

\* the engine calls parse(response): the anchors loop runs to its end or raises
ParseListing ==
    /\ pc = "start"
    /\ \E nav \in NavBlocks :
         /\ pc' = IF CollectAnchors(nav).ok THEN "loop" ELSE "raised"
         /\ anchors' = CollectAnchors(nav).anchors
    /\ UNCHANGED <<target_categories, count, last, items, requests, delivered, lastResp, log>>

\* one turn of the for loop over response.css("dl dt"), the dt drawn from E
ParseEntryFrom(E) ==
    /\ pc = "loop"
    /\ count < MaxEntries
    /\ \E dt \in E :
         \E r \in {ParseEntryResult(anchors, target_categories, dt, count + 1)} :
             /\ pc' = IF r.raised THEN "raised" ELSE "loop"
             /\ last' = <<dt>>
             /\ items' = items \o r.items
             /\ requests' = requests \o r.requests
             /\ log' = log \o r.log
    /\ count' = count + 1
    /\ UNCHANGED <<target_categories, anchors, delivered, lastResp>>

ParseEntry == ParseEntryFrom(Entries)

ParseKeywordEntry == ParseEntryFrom(KeywordEntries)

\* the engine delivers the response to a request not yet answered: parse_abstract_page()
Deliver ==
    /\ \E i \in (DOMAIN requests) \ delivered :
         \E abstract \in AbstractPages :
           LET r == AbstractDecision(i, XPathStringGet(abstract))
           IN  /\ items' = items \o r.items
               /\ requests' = requests \o r.requests
               /\ log' = log \o r.log
               /\ delivered' = delivered \cup {i}
               /\ lastResp' = <<[req |-> i, abstract |-> abstract]>>
    /\ UNCHANGED <<target_categories, pc, anchors, count, last>>

Next == ParseListing \/ ParseEntry \/ Deliver

Spec == Init /\ [][Next]_vars

\* the listing page holds the written keywords as titles
KeywordNext == ParseListing \/ ParseKeywordEntry \/ Deliver

KeywordSpec == Init /\ [][KeywordNext]_vars

\* the engine delivers the response to every request it was given
FairSpec == Spec /\ WF_vars(Deliver)

\* ------------------------------------------------------------ the claims
\* The dt the loop took last, and what the sink, the engine and the logger hold for the
\* item_data dict built for the n-th dt.
LastDt == last[1]

LastDD == LastDt.dd[1]

AnchorIsInteger == Truthy(LastDt.name) /\ IntParse(SplitLast(LastDt.name, ItemWord)).ok

PositionIndex == IntParse(SplitLast(LastDt.name, ItemWord)).val

BoundDefined == Len(anchors) > 0

AnchorBound == anchors[Len(anchors)]

ItemsOf(n) == {k \in DOMAIN items : items[k].data.ref = n}

TitleItemsOf(n) == {k \in DOMAIN items : items[k].data.ref = n /\ items[k].by = "parse"}

AbstractItemsOf(n) ==
    {k \in DOMAIN items : items[k].data.ref = n /\ items[k].by = "parse_abstract_page"}

RequestsOf(n) == {i \in DOMAIN requests : requests[i].meta.item_data.ref = n}

LogOf(n, level, msg) ==
    {k \in DOMAIN log : log[k].ref = n /\ log[k].level = level /\ log[k].msg = msg}

\* a PaperRecord was built for the last dt: anchor, position below the bound, abstract
\* link and detail block are all there
RecordBuilt ==
    /\ Len(last) = 1
    /\ AnchorIsInteger
    /\ ~(BoundDefined /\ PositionIndex >= AnchorBound)
    /\ Truthy(LastDt.href)
    /\ Len(LastDt.dd) = 1

\* the dd has a subject element
FieldPresent == LastDD.primary # None \/ LastDD.subjects # None

\* the subject elements of the dd hold no text at all
TextEmpty == LastDD.primary \in {None, <<>>} /\ LastDD.subjects \in {None, <<>>}

\* the text the category parser reads
LastSubjectsText == IF LastDD.primary \in {None, <<>>} THEN LastDD.subjects ELSE LastDD.primary

LastCategories == ToSet(FindAllParenthesized(LastSubjectsText))

\* stage 1 dropped the last dt at the category gate
CategorySkipped ==
    /\ LogOf(count, "debug", "Skipped paper (category mismatch)") # {}
    /\ ItemsOf(count) = {}
    /\ RequestsOf(count) = {}

\* stage 1 went on to the title test for the last dt
TitleTested == TitleItemsOf(count) # {} \/ RequestsOf(count) # {}

KeywordIn(text) == \E k \in DOMAIN my_keywords : Contains(LowerKeywords[k], text)

\* the text of a field as the keyword test sees it: label removed, trimmed, in small letters
Normalized(text, label) == ToLower(Strip(Replace(text, label, <<>>)))

\* the titles the listing pages hold
PageTitles == {e.dd[1].title : e \in {x \in Entries \cup KeywordEntries : Len(x.dd) = 1}}

\* whether a title, and an abstract, holds a keyword of the program's list
TitleHolds == [t \in PageTitles |-> Truthy(t) /\ KeywordIn(Normalized(t, LabelTitle))]

AbstractHolds == [a \in AbstractPages |-> Truthy(a) /\ KeywordIn(Normalized(a, LabelAbstract))]

\* whether a title holds a keyword as written in the list, in any letter case
TitleHoldsWritten ==
    [t \in PageTitles |->
        Truthy(t) /\ \E k \in DOMAIN WrittenKeywords :
                        Contains(ToLower(WrittenKeywords[k]), ToLower(t))]

LastTitleHit == TitleHolds[LastDD.title]

\* C1: with at least one index marker, an entry whose position index is >= the last
\* marker's integer (equal included) yields neither an item nor an abstract request,
\* whatever its categories, title and abstract link.
C1_BoundaryExclusivity ==
    (Len(last) = 1 /\ AnchorIsInteger /\ BoundDefined /\ PositionIndex >= AnchorBound)
        => (ItemsOf(count) = {} /\ RequestsOf(count) = {} /\ pc = "loop")

\* an entry at index 10 under the bound 10, in a target category, with a keyword in its title
C1_Witness ==
    /\ Len(last) = 1
    /\ LastDt = DT(NameItem10, LinkP2, DD(SubjGA, None, TitleLensing))
    /\ anchors = <<12, 10>>
    /\ ItemsOf(count) = {}
    /\ RequestsOf(count) = {}

C3_TitleDecision ==
    /\ \A n \in 1..count :
         /\ Cardinality(TitleItemsOf(n)) + Cardinality(RequestsOf(n)) <= 1
    /\ (RecordBuilt /\ ~CategorySkipped) =>
         /\ LastTitleHit =>
              (Cardinality(TitleItemsOf(count)) = 1 /\ RequestsOf(count) = {})
         /\ ~LastTitleHit =>
              (TitleItemsOf(count) = {} /\ Cardinality(RequestsOf(count)) = 1)

\* one entry of the page emitted by its title, another one escalated
C3_Witness ==
    \E n, m \in 1..count :
        /\ TitleItemsOf(n) # {} /\ RequestsOf(n) = {}
        /\ RequestsOf(m) # {} /\ TitleItemsOf(m) = {}

\* the response parse_abstract_page got last
RespRequest == lastResp[1].req

RespAbstract == lastResp[1].abstract

RespRef == requests[RespRequest].meta.item_data.ref

RespHit == AbstractHolds[RespAbstract]

NotFoundMsg == "Skipped paper: Keywords not found in Title or Abstract"

WarningMsg == "Could not extract abstract"

\* C4: for an escalated record, parse_abstract_page emits the record when the abstract
\* holds a keyword, emits nothing when it does not, and emits nothing with a warning,
\* which the keyword-mismatch skip never logs, when no abstract text can be extracted.
C4_EscalationCorrectness ==
    Len(lastResp) = 1 =>
        /\ ~KeywordIn(requests[RespRequest].meta.title_prefix)
        /\ RespHit =>
             /\ Cardinality(AbstractItemsOf(RespRef)) = 1
             /\ \A k \in AbstractItemsOf(RespRef) :
                    items[k].data = requests[RespRequest].meta.item_data
        /\ ~RespHit => AbstractItemsOf(RespRef) = {}
        /\ (Truthy(RespAbstract) /\ ~RespHit) =>
             /\ LogOf(RespRef, "info", NotFoundMsg) # {}
             /\ LogOf(RespRef, "warning", WarningMsg) = {}
        /\ ~Truthy(RespAbstract) =>
             /\ LogOf(RespRef, "warning", WarningMsg) # {}
             /\ LogOf(RespRef, "info", NotFoundMsg) = {}

\* an escalated record emitted on the abstract "...we study molecular gas content..."
C4_Witness ==
    /\ Len(lastResp) = 1
    /\ RespAbstract = AbstractGas
    /\ AbstractItemsOf(RespRef) # {}

\* scenario B: index 5 under the bound 10, categories (astro-ph.GA), target
\* {astro-ph.GA}, title "A Survey of Gas Content"
ScenarioB ==
    /\ Len(last) = 1
    /\ LastDt = DT(NameItem5, LinkP2, DD(SubjGA, None, TitleGas))
    /\ BoundDefined
    /\ AnchorBound = 10
    /\ target_categories = {CatGA}

\* C5 as stated: scenario B is escalated by stage 1 (a fetch, no item by title) and
\* emitted by stage 2 on its abstract.
C5_ScenarioBAsStated ==
    ScenarioB =>
        /\ TitleItemsOf(count) = {}
        /\ Cardinality(RequestsOf(count)) = 1
        /\ \A i \in RequestsOf(count) :
               (i \in delivered /\ Len(lastResp) = 1 /\ RespRequest = i /\ RespAbstract = AbstractGas)
                   => AbstractItemsOf(count) # {}

\* C5 amended: with the program's keyword list, which holds "gas", scenario B is
\* emitted by stage 1 as a title match; no abstract fetch is issued and stage 2 never
\* runs for it. The abstract "...we study molecular gas content..." is an abstract
\* match for a record that does reach stage 2.
C5_ScenarioB ==
    /\ ScenarioB =>
         /\ Cardinality(TitleItemsOf(count)) = 1
         /\ LogOf(count, "info", "Found INTERESTING paper (by Title)") # {}
         /\ RequestsOf(count) = {}
         /\ AbstractItemsOf(count) = {}
    /\ (Len(lastResp) = 1 /\ RespAbstract = AbstractGas) =>
         /\ AbstractItemsOf(RespRef) # {}
         /\ LogOf(RespRef, "info", "Found INTERESTING paper (by Abstract)") # {}

\* scenario B emitted by its title
C5_Witness == ScenarioB /\ TitleItemsOf(count) # {} /\ RequestsOf(count) = {}

\* C6: a built record that passed the category gate and whose title holds one of the
\* keywords written in the list, in any letter case, is emitted at stage 1.
C6_KeywordCoverage ==
    (/\ RecordBuilt
     /\ ~CategorySkipped
     /\ TitleHoldsWritten[LastDD.title])
        => TitleItemsOf(count) # {}

\* C8: no listing page makes parse() raise, and an entry without abstract link or
\* detail block costs that entry alone.
C8_NeverFatal ==
    /\ pc # "raised"
    /\ (Len(last) = 1 /\ (LastDt.href = None \/ LastDt.dd = <<>>)) => ItemsOf(count) = {}

\* the items a step appended
NewItems == SubSeq(items', Len(items) + 1, Len(items'))

\* C9: the record stage 1 hands to a fetch is the {id, categories} of its entry; no
\* step changes a request in flight or an item already emitted; and what stage 2 emits
\* for a response is the record of the request that response answers, decided by that
\* response's abstract alone, whatever else is in flight.
C9_ContextIntegrity ==
    /\ [](RecordBuilt =>
            \A i \in RequestsOf(count) :
                requests[i].meta.item_data.val =
                    [id |-> SplitLast(LastDt.href, <<"/">>), categories |-> LastCategories])
    /\ [][/\ \A i \in DOMAIN requests : i \in DOMAIN requests' /\ requests'[i] = requests[i]
          /\ \A k \in DOMAIN items : k \in DOMAIN items' /\ items'[k] = items[k]
          /\ delivered' # delivered =>
               LET i == lastResp'[1].req
                   a == lastResp'[1].abstract
                   hit == AbstractHolds[a]
               IN  /\ delivered' = delivered \cup {i}
                   /\ hit => NewItems = <<[by |-> "parse_abstract_page",
                                           data |-> requests[i].meta.item_data]>>
                   /\ ~hit => NewItems = <<>>]_vars

\* two records in flight, the later one answered and emitted first
C9_Witness ==
    /\ Len(requests) = 2
    /\ requests[1].meta.item_data.val # requests[2].meta.item_data.val
    /\ delivered = {2}
    /\ AbstractItemsOf(requests[2].meta.item_data.ref) # {}

\* parse_abstract_page reached its decision for request i
Decided(i) ==
    /\ i \in delivered
    /\ \E k \in DOMAIN log :
         /\ log[k].ref = requests[i].meta.item_data.ref
         /\ log[k].msg \in {"Found INTERESTING paper (by Abstract)", NotFoundMsg, WarningMsg}

\* C10: when the engine delivers the response to every request, every escalated record
\* reaches its decision; parse_abstract_page issues no request, and one response
\* yields at most one item.
C10_Stage2Terminal ==
    /\ \A i \in 1..MaxEntries : [](i \in DOMAIN requests => <>Decided(i))
    /\ [][delivered' # delivered => (requests' = requests /\ Len(items') <= Len(items) + 1)]_vars

\* every request of the page answered and decided
C10_Witness ==
    /\ Len(requests) = MaxEntries
    /\ \A i \in DOMAIN requests : Decided(i)

====
